---- MODULE Spec2Model ----
(***************************************************************************)
(* Model of the translation pipeline of fluxo_simplificado_tradutor:       *)
(*   - ClaudeConnector.send_prompt      (the Process Invoker, retry loop)  *)
(*   - translate_article / traduzir_com_connector / traduzir_artigo        *)
(*                                      (the Translator and its fallbacks) *)
(*   - ClaudeConnector.extract_json     (the Response Extractor)           *)
(*   - ClaudeConnector.formatar_para_sanity (slug, paragraphs, blocks)     *)
(*                                                                         *)
(* Texts are sequences of tokens (one-character strings, or whole words    *)
(* where only word membership matters).  The external tool is an oracle:   *)
(* each invocation nondeterministically succeeds, exits non-zero, times    *)
(* out or raises.                                                          *)
(***************************************************************************)
EXTENDS Integers, Sequences, FiniteSets, TLC

VARIABLES
    (* ---- Process Invoker / Translator (Spec) ---- *)
    entry,          \* which function of the repository was called
    article,        \* the input article (a function from its keys to texts)
    INTEGRATION_AVAILABLE,  \* traduzir_artigo.py: import of claude_integration worked
    CONNECTOR_AVAILABLE,    \* traduzir_artigo.py: import of claude_connector worked
    claude_disponivel,      \* ClaudeConnector.claude_disponivel (cached verify_claude)
    pc,             \* position of the caller of send_prompt / of the translator
    result,         \* the record the translator returned (when pc = "done")
    raised,         \* TRUE when the called function ended by raising
    saved,          \* the translated files traduzir_artigo wrote (0 or 1 records)
    oracle,         \* what the external tool answered to translate_with_claude
    exhausted,      \* history: the fields whose send_prompt call used up its retries
    retries,        \* send_prompt: the retries argument
    attempt,        \* send_prompt: the loop variable
    calls,          \* number of subprocess.run invocations of the current call
    hist,           \* outcomes of the attempts of the current send_prompt call
    sp_state,       \* "idle" | "running" | "returned"
    sp_ret,         \* send_prompt's return value (when sp_state = "returned")
    (* ---- Response Extractor (SpecExtract) ---- *)
    ex_text,        \* the text handed to extract_json
    ex_pc,          \* "call" | "done"
    ex_out,         \* what extract_json did: [kind, val, listTried]
    (* ---- Document Formatter (SpecFormat) ---- *)
    fm_titulo,      \* formatar_para_sanity: titulo
    fm_pieces,      \* the pieces (paragraphs and separators) conteudo is made of
    fm_resumo,      \* formatar_para_sanity: resumo
    fm_artigo,      \* processar_artigo: the translated article it loaded (SpecProcessar)
    fm_pc,          \* "call" | "done"
    fm_doc,         \* the document formatar_para_sanity returned
    (* ---- Orchestrator: processar_posts_existentes.main (SpecMain) ---- *)
    posts_para_traduzir,  \* the input directory: file -> the article stored in it
    posts_traduzidos,     \* the files that have a translated output
    posts_formatados,     \* the files that have a formatted output
    args,           \* the parsed command line: limit, no_sanity, force
    arquivos,       \* main: the list of files to process
    idx,            \* main: position of the loop in arquivos
    depth,          \* processar_artigo: 0 in main's call, 1 in the retry after a repair
    resultados,     \* main: the lists "sucesso" and "erro"
    relatorio,      \* the report file: <<>> or <<its content>>
    exit_code,      \* exit code of the process (when main_pc = "exit")
    main_pc,        \* "idle" | "start" | "translate" | "format" | "report" | "exit"
    existed,        \* history: posts_traduzidos when main started
    log             \* history: what the run did, as <<operation, file>> pairs

txVars == <<entry, article, INTEGRATION_AVAILABLE, CONNECTOR_AVAILABLE,
            claude_disponivel, pc, result, raised, saved, oracle, exhausted>>
spVars == <<retries, attempt, calls, hist, sp_state, sp_ret>>
exVars == <<ex_text, ex_pc, ex_out>>
fmVars == <<fm_titulo, fm_pieces, fm_resumo, fm_artigo, fm_pc, fm_doc>>
mainVars == <<posts_para_traduzir, posts_traduzidos, posts_formatados, args,
              arquivos, idx, depth, resultados, relatorio, exit_code, main_pc,
              existed, log>>
vars == <<txVars, spVars, exVars, fmVars, mainVars>>

(***************************************************************************)
(* Bounds of the model.                                                    *)
(***************************************************************************)
MaxRetries == 3     \* send_prompt is called directly with retries in 0..MaxRetries
MaxTextLen == 5     \* extract_json is given texts of at most MaxTextLen tokens
MaxSuffixLen == 3   \* a title is a run of "a" followed by at most MaxSuffixLen characters
MaxPieces == 5      \* a body is made of at most MaxPieces paragraphs and separators
MaxTailLen == 3     \* a summary is a run of "x" followed by at most MaxTailLen characters
MaxFiles == 2       \* the input directory holds files 1..MaxFiles at most
MaxSkeletonLen == 7 \* a nested object has at most MaxSkeletonLen tokens other than whitespace

(***************************************************************************)
(* Generic helpers on texts and records.                                   *)
(***************************************************************************)
Get(f, k, d) == IF k \in DOMAIN f THEN f[k] ELSE d

Put(f, k, v) == [x \in (DOMAIN f) \cup {k} |-> IF x = k THEN v ELSE f[x]]

Has(text, tok) == \E i \in 1..Len(text) : text[i] = tok

IsSpaceTok(c) == c \in {" ", "\n", "\t"}

RECURSIVE LStrip(_)
LStrip(s) == IF s # <<>> /\ IsSpaceTok(Head(s)) THEN LStrip(Tail(s)) ELSE s

RECURSIVE RStrip(_)
RStrip(s) ==
    IF s # <<>> /\ IsSpaceTok(s[Len(s)]) THEN RStrip(SubSeq(s, 1, Len(s) - 1)) ELSE s

\* str.strip()
PyStrip(s) == RStrip(LStrip(s))

(***************************************************************************)
(* Process Invoker: ClaudeConnector.send_prompt.                           *)
(* One attempt = one subprocess.run of the external tool.  The oracle      *)
(* answers each attempt with one outcome of Outcomes.                      *)
(***************************************************************************)
DefaultRetries == 2

\* What the external tool may print / how an attempt may end.
StdoutTexts == { <<" ", "pt", " ", "br", "\n">> }
StderrTexts == { <<"stderr", "\n">> }
ExceptionTexts == { <<"oserror">> }

Outcomes ==
    [kind : {"ok"}, text : StdoutTexts]
        \cup [kind : {"nonzero"}, text : StderrTexts]
        \cup [kind : {"timeout"}, text : {<<>>}]
        \cup [kind : {"exception"}, text : ExceptionTexts]

ErroPrefix == <<"ERRO: ">>
TimeoutMessage == <<"A resposta demorou muito tempo.">>

\* The string send_prompt returns when the last attempt ended with outcome o.
ErrorReturn(o) ==
    CASE o.kind = "nonzero"   -> ErroPrefix \o o.text
      [] o.kind = "timeout"   -> ErroPrefix \o TimeoutMessage
      [] o.kind = "exception" -> ErroPrefix \o o.text

\* Mutant of CanRetry: one retry too many.
CanRetryOffByOne(a, r) == a <= r

\* `if attempt < retries:` -- another attempt follows a failed one.
CanRetry(a, r) == a < r

\* Mutant of SuccessReturn: the raw stdout.
SuccessReturnRaw(out) == out

\* `return result.stdout.strip()`
SuccessReturn(out) == PyStrip(out)

\* The state send_prompt starts in: `for attempt in range(retries + 1)`.
SendPromptStart(n) ==
    /\ retries' = n
    /\ attempt' = 0
    /\ calls' = 0
    /\ hist' = <<>>
    /\ sp_state' = "running"
    /\ sp_ret' = <<>>

\* result.returncode == 0
AttemptOk ==
    /\ sp_state = "running"
    /\ \E o \in Outcomes :
        /\ o.kind = "ok"
        /\ hist' = Append(hist, o)
        /\ sp_ret' = SuccessReturn(o.text)
    /\ calls' = calls + 1
    /\ sp_state' = "returned"
    /\ UNCHANGED <<retries, attempt>>
    /\ UNCHANGED <<txVars, exVars, fmVars, mainVars>>

\* The common tail of the three failure branches: retry or return the error.
AttemptFailed(o) ==
    /\ sp_state = "running"
    /\ hist' = Append(hist, o)
    /\ calls' = calls + 1
    /\ IF CanRetry(attempt, retries)
         THEN /\ attempt' = attempt + 1
              /\ UNCHANGED <<sp_state, sp_ret>>
         ELSE /\ sp_state' = "returned"
              /\ sp_ret' = ErrorReturn(o)
              /\ UNCHANGED attempt
    /\ UNCHANGED retries
    /\ UNCHANGED <<txVars, exVars, fmVars, mainVars>>

\* result.returncode != 0
AttemptNonZero == \E o \in Outcomes : o.kind = "nonzero" /\ AttemptFailed(o)

\* except subprocess.TimeoutExpired
AttemptTimeout == \E o \in Outcomes : o.kind = "timeout" /\ AttemptFailed(o)

\* except Exception
AttemptException == \E o \in Outcomes : o.kind = "exception" /\ AttemptFailed(o)

(***************************************************************************)
(* Translator: claude_integration.translate_article (whole article) and    *)
(* traduzir_artigo.traduzir_com_connector (field by field).                *)
(* Article texts are sequences of words; `"x" in text` is word membership. *)
(***************************************************************************)
TitleTexts == { <<"Experts", "alarmed">>, <<"Trump", "promotes", "deep-sea mining">> }
SummaryTexts == { <<"A", "summary">>, <<"industry moratorium", "scientific data">> }
ContentTexts == { <<"Body", "text">>, <<"Inside Climate News", "Clarion-Clipperton Zone">> }
SourceTexts == { <<"Example">> }

ValuesOf(k) ==
    CASE k = "title"   -> TitleTexts
      [] k = "summary" -> SummaryTexts
      [] k = "content" -> ContentTexts
      [] k = "source"  -> SourceTexts

TextKeys == {"title", "summary", "content"}

\* The input articles: every subset of the text fields, plus a passthrough field.
Articles ==
    UNION { { a \in [K \cup {"source"} ->
                        TitleTexts \cup SummaryTexts \cup ContentTexts \cup SourceTexts] :
                \A k \in DOMAIN a : a[k] \in ValuesOf(k) } : K \in SUBSET TextKeys }

\* The canned translations and the failure marker of the fallbacks.
CannedTitle == <<"Especialistas alarmados com promocao de Trump a mineracao em aguas profundas">>
CannedSummary == <<"Criticos pedem moratoria da industria">>
CannedContent == <<"<p><i>Este artigo apareceu originalmente no Inside Climate News">>
FailMarker == "[TRADUCAO FALHOU] "
IsoNow == <<"datetime.now().isoformat()">>
EmptyText == <<>>

\* What the oracle may answer to translate_with_claude's single prompt.
PayloadTexts == { <<"Texto", "traduzido">> }
Payloads == UNION { [K -> PayloadTexts] : K \in SUBSET TextKeys }
NoPayload == [k \in {} |-> EmptyText]
OracleOutcomes ==
    [kind : {"unavailable", "send_error", "no_json", "bad_json"}, payload : {NoPayload}]
        \cup [kind : {"payload"}, payload : Payloads]

\* translate_with_claude with '' as the default of every translated.get.
TranslateWithClaudeNoDefault(a, o) ==
    IF o.kind = "payload"
      THEN LET r1 == Put(a, "title", Get(o.payload, "title", EmptyText))
               r2 == Put(r1, "summary", Get(o.payload, "summary", EmptyText))
               r3 == Put(r2, "content", Get(o.payload, "content", EmptyText))
           IN  [raised |-> FALSE, value |-> r3]
      ELSE [raised |-> TRUE, value |-> NoPayload]

\* translate_with_claude: raises unless the reply holds a parseable payload.
TranslateWithClaude(a, o) ==
    IF o.kind = "payload"
      THEN LET title == Get(a, "title", EmptyText)
               content == Get(a, "content", EmptyText)
               summary == Get(a, "summary", EmptyText)
               r1 == Put(a, "title", Get(o.payload, "title", title))
               r2 == Put(r1, "summary", Get(o.payload, "summary", summary))
               r3 == Put(r2, "content", Get(o.payload, "content", content))
           IN  [raised |-> FALSE, value |-> r3]
      ELSE [raised |-> TRUE, value |-> NoPayload]

\* What the oracle may answer to format_article_with_claude's prompt: the
\* parsed object has any of the keys _type and content.
TypeTexts == { <<"post">>, <<"article">> }
ContentValues == { <<>>, <<"block">> }
FormatPayloads ==
    UNION { { f \in [K -> TypeTexts \cup ContentValues] :
                /\ "_type" \in K => f["_type"] \in TypeTexts
                /\ "content" \in K => f["content"] \in ContentValues }
            : K \in SUBSET {"_type", "content"} }
FormatOutcomes ==
    [kind : {"unavailable", "send_error", "no_json", "bad_json"}, payload : {NoPayload}]
        \cup [kind : {"payload"}, payload : FormatPayloads]

\* format_article_with_claude: raises unless the reply holds a parseable
\* object, and returns that object as it is (a _type other than "post" is
\* only logged).
FormatArticleWithClaude(a, o) ==
    IF o.kind = "payload"
      THEN [raised |-> FALSE, value |-> o.payload]
      ELSE [raised |-> TRUE, value |-> NoPayload]

\* The `except Exception` branch of translate_article.
TranslateFallback(a) ==
    LET title == Get(a, "title", EmptyText)
        r1 == Put(a, "title",
                  IF Has(title, "Trump") /\ Has(title, "deep-sea mining")
                    THEN CannedTitle
                    ELSE <<FailMarker>> \o title)
        summary == Get(r1, "summary", EmptyText)
        r2 == IF Has(summary, "industry moratorium") /\ Has(summary, "scientific data")
                THEN Put(r1, "summary", CannedSummary)
                ELSE r1
        content == Get(r2, "content", EmptyText)
        r3 == IF Has(content, "Inside Climate News") /\ Has(content, "Clarion-Clipperton Zone")
                THEN Put(r2, "content", CannedContent)
                ELSE r2
    IN  r3

\* Mutant of TranslateArticle: the error of translate_with_claude propagates.
TranslateArticleNoCatch(a, o) == TranslateWithClaude(a, o)

\* translate_article
TranslateArticle(a, o) ==
    LET r == TranslateWithClaude(a, o)
    IN  IF r.raised THEN [raised |-> FALSE, value |-> TranslateFallback(a)] ELSE r

\* The canned record of traduzir_com_connector (tool unavailable) and of
\* traduzir_artigo (no strategy imported).
CannedRecord(a) ==
    LET r1 == Put(a, "title", CannedTitle)
        r2 == IF "summary" \in DOMAIN a THEN Put(r1, "summary", CannedSummary) ELSE r1
        r3 == IF "content" \in DOMAIN a THEN Put(r2, "content", CannedContent) ELSE r2
    IN  Put(r3, "translated_date", IsoNow)

\* Which strategy the called function runs.
UsesIntegration ==
    \/ entry = "translate_article"
    \/ entry = "traduzir_artigo" /\ INTEGRATION_AVAILABLE
UsesConnector ==
    \/ entry = "traduzir_com_connector"
    \/ entry = "traduzir_artigo" /\ ~INTEGRATION_AVAILABLE /\ CONNECTOR_AVAILABLE
UsesNoStrategy ==
    entry = "traduzir_artigo" /\ ~INTEGRATION_AVAILABLE /\ ~CONNECTOR_AVAILABLE

\* Where the translator's return leads: traduzir_artigo goes on to write the file.
AfterTranslation == IF entry = "traduzir_artigo" THEN "translated" ELSE "done"

\* translate_article(article), called directly or by traduzir_artigo.
TranslateArticleCall ==
    /\ pc = "call"
    /\ UsesIntegration
    /\ \E o \in OracleOutcomes :
        LET r == TranslateArticle(article, o)
        IN  /\ oracle' = o
            /\ raised' = r.raised
            /\ result' = r.value
            /\ pc' = IF r.raised THEN "done" ELSE AfterTranslation
    /\ UNCHANGED <<entry, article, INTEGRATION_AVAILABLE, CONNECTOR_AVAILABLE,
                   claude_disponivel, saved, exhausted>>
    /\ UNCHANGED <<spVars, exVars, fmVars, mainVars>>

\* translate_with_claude(article), called directly.
TranslateWithClaudeCall ==
    /\ pc = "call"
    /\ entry = "translate_with_claude"
    /\ \E o \in OracleOutcomes :
        LET r == TranslateWithClaude(article, o)
        IN  /\ oracle' = o
            /\ raised' = r.raised
            /\ result' = r.value
            /\ pc' = "done"
    /\ UNCHANGED <<entry, article, INTEGRATION_AVAILABLE, CONNECTOR_AVAILABLE,
                   claude_disponivel, saved, exhausted>>
    /\ UNCHANGED <<spVars, exVars, fmVars, mainVars>>

\* format_article_with_claude(article), called directly.
FormatArticleWithClaudeCall ==
    /\ pc = "call"
    /\ entry = "format_article_with_claude"
    /\ \E o \in FormatOutcomes :
        LET r == FormatArticleWithClaude(article, o)
        IN  /\ oracle' = o
            /\ raised' = r.raised
            /\ result' = r.value
            /\ pc' = "done"
    /\ UNCHANGED <<entry, article, INTEGRATION_AVAILABLE, CONNECTOR_AVAILABLE,
                   claude_disponivel, saved, exhausted>>
    /\ UNCHANGED <<spVars, exVars, fmVars, mainVars>>

\* traduzir_com_connector, `if not CONNECTOR_AVAILABLE or not verificar_claude()`.
ConnectorUnavailable ==
    /\ pc = "call"
    /\ UsesConnector
    /\ ~CONNECTOR_AVAILABLE \/ ~claude_disponivel
    /\ result' = CannedRecord(article)
    /\ pc' = AfterTranslation
    /\ UNCHANGED <<entry, article, INTEGRATION_AVAILABLE, CONNECTOR_AVAILABLE,
                   claude_disponivel, raised, saved, oracle, exhausted>>
    /\ UNCHANGED <<spVars, exVars, fmVars, mainVars>>

\* traduzir_com_connector: copy the article and send the title to the tool.
ConnectorBegin ==
    /\ pc = "call"
    /\ UsesConnector
    /\ CONNECTOR_AVAILABLE /\ claude_disponivel
    /\ result' = article
    /\ pc' = "title"
    /\ SendPromptStart(DefaultRetries)
    /\ UNCHANGED <<entry, article, INTEGRATION_AVAILABLE, CONNECTOR_AVAILABLE,
                   claude_disponivel, raised, saved, oracle, exhausted>>
    /\ UNCHANGED <<exVars, fmVars, mainVars>>

\* The fields traduzir_com_connector still sends after field f, in order.
FieldsAfter(f) ==
    CASE f = "title"   -> <<"summary", "content">>
      [] f = "summary" -> <<"content">>
      [] f = "content" -> <<>>

RECURSIVE NextField(_, _)
NextField(fs, a) ==
    IF fs = <<>> THEN "none"
    ELSE IF Head(fs) \in DOMAIN a THEN Head(fs) ELSE NextField(Tail(fs), a)

\* `result[f] = traduzir(article.get(f, ''))`: the raw return of send_prompt.
FieldValue(f, ret) == ret

\* traduzir_com_connector: send_prompt returned for field pc; store it, then
\* send the next field the article has, or stamp the date and return.
ConnectorFieldDone ==
    /\ pc \in TextKeys
    /\ sp_state = "returned"
    /\ LET r == Put(result, pc, FieldValue(pc, sp_ret))
           nf == NextField(FieldsAfter(pc), article)
       IN  IF nf = "none"
             THEN /\ result' = Put(r, "translated_date", IsoNow)
                  /\ pc' = AfterTranslation
                  /\ sp_state' = "idle"
                  /\ UNCHANGED <<retries, attempt, calls, hist, sp_ret>>
             ELSE /\ result' = r
                  /\ pc' = nf
                  /\ SendPromptStart(DefaultRetries)
    /\ exhausted' = IF hist[Len(hist)].kind = "ok" THEN exhausted ELSE exhausted \cup {pc}
    /\ UNCHANGED <<entry, article, INTEGRATION_AVAILABLE, CONNECTOR_AVAILABLE,
                   claude_disponivel, raised, saved, oracle>>
    /\ UNCHANGED <<exVars, fmVars, mainVars>>

\* traduzir_artigo, `else:` -- no translation method was imported.
NoStrategy ==
    /\ pc = "call"
    /\ UsesNoStrategy
    /\ result' = CannedRecord(article)
    /\ pc' = "translated"
    /\ UNCHANGED <<entry, article, INTEGRATION_AVAILABLE, CONNECTOR_AVAILABLE,
                   claude_disponivel, raised, saved, oracle, exhausted>>
    /\ UNCHANGED <<spVars, exVars, fmVars, mainVars>>

\* traduzir_artigo: json.dump(translated_article) into the output file.
Persist ==
    /\ pc = "translated"
    /\ saved' = Append(saved, result)
    /\ pc' = "done"
    /\ UNCHANGED <<entry, article, INTEGRATION_AVAILABLE, CONNECTOR_AVAILABLE,
                   claude_disponivel, result, raised, oracle, exhausted>>
    /\ UNCHANGED <<spVars, exVars, fmVars, mainVars>>

\* traduzir_artigo: the write fails (I/O error), `except Exception: return None`.
PersistFails ==
    /\ pc = "translated"
    /\ pc' = "done"
    /\ UNCHANGED <<entry, article, INTEGRATION_AVAILABLE, CONNECTOR_AVAILABLE,
                   claude_disponivel, result, raised, saved, oracle, exhausted>>
    /\ UNCHANGED <<spVars, exVars, fmVars, mainVars>>

(***************************************************************************)
(* Specification of the Process Invoker and the Translator.                *)
(***************************************************************************)
NoOracle == [kind |-> "none", payload |-> NoPayload]

ExtractorIdle ==
    /\ ex_text = <<>>
    /\ ex_pc = "idle"
    /\ ex_out = [kind |-> "idle", val |-> <<>>, listTried |-> FALSE]

MainIdle ==
    /\ posts_para_traduzir = <<>>
    /\ posts_traduzidos = {}
    /\ posts_formatados = {}
    /\ args = [limit_given |-> FALSE, limit |-> 0, no_sanity |-> FALSE, force |-> FALSE]
    /\ arquivos = <<>>
    /\ idx = 0
    /\ depth = 0
    /\ resultados = [sucesso |-> <<>>, erro |-> <<>>]
    /\ relatorio = <<>>
    /\ exit_code = 0
    /\ main_pc = "idle"
    /\ existed = {}
    /\ log = <<>>

FormatterIdle ==
    /\ fm_titulo = <<>>
    /\ fm_pieces = <<>>
    /\ fm_resumo = <<>>
    /\ fm_artigo = <<>>
    /\ fm_pc = "idle"
    /\ fm_doc = [slug |-> <<>>, content |-> <<>>]

InvokerIdle ==
    /\ retries = DefaultRetries
    /\ attempt = 0
    /\ calls = 0
    /\ hist = <<>>
    /\ sp_state = "idle"
    /\ sp_ret = <<>>

TranslatorIdle ==
    /\ entry = "none"
    /\ article = NoPayload
    /\ INTEGRATION_AVAILABLE = FALSE
    /\ CONNECTOR_AVAILABLE = FALSE
    /\ claude_disponivel = FALSE
    /\ pc = "idle"
    /\ result = NoPayload
    /\ raised = FALSE
    /\ saved = <<>>
    /\ oracle = NoOracle
    /\ exhausted = {}

\* A direct call send_prompt(prompt, retries = n), n in 0..MaxRetries.
InitSendPrompt ==
    /\ entry = "send_prompt"
    /\ article = NoPayload
    /\ INTEGRATION_AVAILABLE = FALSE
    /\ CONNECTOR_AVAILABLE = TRUE
    /\ claude_disponivel = TRUE
    /\ pc = "send_prompt"
    /\ retries \in 0..MaxRetries
    /\ attempt = 0
    /\ calls = 0
    /\ hist = <<>>
    /\ sp_state = "running"
    /\ sp_ret = <<>>

\* A call of translate_article, traduzir_com_connector or traduzir_artigo.
InitTranslator ==
    /\ entry \in {"translate_article", "traduzir_com_connector", "traduzir_artigo"}
    /\ article \in Articles
    /\ INTEGRATION_AVAILABLE \in (IF entry = "traduzir_artigo" THEN BOOLEAN ELSE {entry = "translate_article"})
    /\ CONNECTOR_AVAILABLE \in (IF entry = "translate_article" THEN {TRUE} ELSE BOOLEAN)
    /\ claude_disponivel \in (IF UsesConnector /\ CONNECTOR_AVAILABLE THEN BOOLEAN ELSE {FALSE})
    /\ pc = "call"
    /\ InvokerIdle

\* A direct call of translate_with_claude or format_article_with_claude.
InitIntegration ==
    /\ entry \in {"translate_with_claude", "format_article_with_claude"}
    /\ article \in Articles
    /\ INTEGRATION_AVAILABLE = TRUE
    /\ CONNECTOR_AVAILABLE = TRUE
    /\ claude_disponivel = FALSE
    /\ pc = "call"
    /\ InvokerIdle

Init ==
    /\ InitSendPrompt \/ InitTranslator \/ InitIntegration
    /\ result = NoPayload
    /\ raised = FALSE
    /\ saved = <<>>
    /\ oracle = NoOracle
    /\ exhausted = {}
    /\ ExtractorIdle
    /\ FormatterIdle
    /\ MainIdle

Next ==
    \/ AttemptOk
    \/ AttemptNonZero
    \/ AttemptTimeout
    \/ AttemptException
    \/ TranslateArticleCall
    \/ TranslateWithClaudeCall
    \/ FormatArticleWithClaudeCall
    \/ ConnectorUnavailable
    \/ ConnectorBegin
    \/ ConnectorFieldDone
    \/ NoStrategy
    \/ Persist
    \/ PersistFails

Spec == Init /\ [][Next]_vars

(***************************************************************************)
(* Claims about the Process Invoker and the Translator (checked under Spec)*)
(***************************************************************************)
IsFailure(o) == o.kind \in {"nonzero", "timeout", "exception"}

\* r is s without its leading and trailing whitespace.
IsTrimOf(r, s) ==
    \E i \in 0..Len(s) : \E j \in 0..(Len(s) - i) :
        /\ r = SubSeq(s, i + 1, Len(s) - j)
        /\ \A k \in 1..i : IsSpaceTok(s[k])
        /\ \A k \in (Len(s) - j + 1)..Len(s) : IsSpaceTok(s[k])
        /\ r # <<>> => ~IsSpaceTok(r[1]) /\ ~IsSpaceTok(r[Len(r)])

\* The error text of an attempt: stderr, the timeout message, or str(e).
LastErrorText(o) == IF o.kind = "timeout" THEN TimeoutMessage ELSE o.text

\* C1: with retries = N >= 0, send_prompt runs the external tool at most N+1
\* times; no attempt follows a successful one; it returns the trimmed stdout
\* of the first attempt that exits 0, and when all N+1 attempts fail it
\* returns a failure ("ERRO: ...") carrying the last attempt's error text.
C1_SendPromptRetryContract ==
    /\ calls = Len(hist)
    /\ calls <= retries + 1
    /\ \A i \in 1..(Len(hist) - 1) : IsFailure(hist[i])
    /\ sp_state = "running" => \A i \in 1..Len(hist) : IsFailure(hist[i])
    /\ sp_state = "returned" =>
        /\ hist # <<>>
        /\ LET last == hist[Len(hist)]
           IN  IF last.kind = "ok"
                 THEN IsTrimOf(sp_ret, last.text)
                 ELSE /\ calls = retries + 1
                      /\ sp_ret = ErroPrefix \o LastErrorText(last)

\* C1 witness: a direct call with retries = 2 whose third attempt succeeds.
C1_Witness ==
    /\ entry = "send_prompt"
    /\ sp_state = "returned"
    /\ retries = 2
    /\ calls = 3
    /\ hist[3].kind = "ok"
    /\ sp_ret = <<"pt", " ", "br">>

\* The translator (translate_article or traduzir_com_connector) has returned
\* or raised.
TranslatorEnded ==
    \/ pc = "translated"
    \/ pc = "done" /\ entry \in {"translate_article", "traduzir_com_connector"}
    \/ pc = "done" /\ entry = "traduzir_artigo" /\ raised

\* C2: whatever the article and the oracle's outcome, the translator returns
\* a record (it does not raise) that has every key of the input article.
C2_TranslatorReturnsAllKeys ==
    TranslatorEnded => ~raised /\ DOMAIN article \subseteq DOMAIN result

\* C2 witness: translate_article returned although the reply held a malformed
\* payload, for an article with all four fields.
C2_Witness ==
    /\ entry = "translate_article"
    /\ pc = "done"
    /\ oracle.kind = "bad_json"
    /\ DOMAIN article = TextKeys \cup {"source"}
    /\ DOMAIN article \subseteq DOMAIN result

\* C3 (as claimed): every translated article traduzir_artigo writes carries a
\* translated_date field, whichever strategy produced it.
C3_PersistedHasTranslatedDate ==
    \A i \in 1..Len(saved) : "translated_date" \in DOMAIN saved[i]

\* The tool was unavailable or the translation failed.
TranslationFailed ==
    \/ UsesIntegration /\ oracle.kind \in {"unavailable", "send_error", "no_json", "bad_json"}
    \/ UsesConnector /\ (~CONNECTOR_AVAILABLE \/ ~claude_disponivel)
    \/ UsesNoStrategy

\* A failure placeholder or a canned translation of field k.
IsFallbackText(k, text) ==
    \/ text = CannedRecord(article)[k]
    \/ text # <<>> /\ Head(text) = FailMarker

\* C4 (as claimed): when the oracle is unavailable or the translation fails,
\* title, summary and content (where the article has them) each hold a failure
\* placeholder or a canned translation, never the unmodified source text.
C4_FallbackNeverPassesSourceText ==
    (TranslatorEnded /\ ~raised /\ TranslationFailed) =>
        \A k \in TextKeys \cap DOMAIN article :
            /\ IsFallbackText(k, result[k])
            /\ result[k] # article[k]

\* C5 (as claimed): in traduzir_com_connector, a field whose send_prompt call
\* used up its retries holds the unavailable-tool fallback value, not the
\* invoker's error text.
C5_ExhaustedFieldHoldsFallback ==
    \A f \in exhausted :
        /\ result[f] = CannedRecord(article)[f]
        /\ ~(result[f] # <<>> /\ Head(result[f]) = "ERRO: ")

\* C12 (as claimed): whenever format_article_with_claude returns a document
\* instead of raising, the document has _type "post" and non-empty content.
C12_FormattedIsPostWithContent ==
    (entry = "format_article_with_claude" /\ pc = "done" /\ ~raised) =>
        /\ Get(result, "_type", EmptyText) = <<"post">>
        /\ Get(result, "content", EmptyText) # <<>>

ExTokens == {"{", "}", "[", "]", "k", "1", " ", "\n"}

ExTexts == UNION { [1..n -> ExTokens] : n \in 0..MaxTextLen }

\* The regex tail `(?:\s*\n|$)` right after position j of text.
TerminatedAt(text, j) ==
    \/ j = Len(text)
    \/ \E m \in (j + 1)..Len(text) :
          /\ text[m] = "\n"
          /\ \A q \in (j + 1)..(m - 1) : IsSpaceTok(text[q])

\* The candidate matches of `(<open>[\s\S]*?<close>)(?:\s*\n|$)` starting at i.
MatchEnds(text, open, close, i) ==
    { j \in (i + 1)..Len(text) : text[j] = close /\ TerminatedAt(text, j) }

MatchStarts(text, open, close) ==
    { i \in 1..Len(text) : text[i] = open /\ MatchEnds(text, open, close, i) # {} }

Min(S) == CHOOSE x \in S : \A y \in S : x <= y

\* re.search with a greedy `[\s\S]*`: from the leftmost start, the longest run.
ReSearchGreedy(text, open, close) ==
    LET starts == MatchStarts(text, open, close)
    IN  IF starts = {}
          THEN [found |-> FALSE, group |-> <<>>]
          ELSE LET i == Min(starts)
                   ends == MatchEnds(text, open, close, i)
                   j == CHOOSE x \in ends : \A y \in ends : y <= x
               IN  [found |-> TRUE, group |-> SubSeq(text, i, j)]

\* re.search: the leftmost start that matches, and from it the shortest
\* (non-greedy) run; group(1) is the run.
ReSearch(text, open, close) ==
    LET starts == MatchStarts(text, open, close)
    IN  IF starts = {}
          THEN [found |-> FALSE, group |-> <<>>]
          ELSE LET i == Min(starts)
                   j == Min(MatchEnds(text, open, close, i))
               IN  [found |-> TRUE, group |-> SubSeq(text, i, j)]

\* json.loads on tokens: whitespace between tokens is skipped.
NoParse == [ok |-> FALSE, rest |-> <<>>, val |-> <<>>]

RECURSIVE ParseValue(_)
ParseValue(s) ==
    LET t == LStrip(s)
    IN  IF t = <<>> THEN NoParse
        ELSE IF Head(t) = "1" THEN [ok |-> TRUE, rest |-> Tail(t), val |-> <<"1">>]
        ELSE IF Head(t) \in {"{", "["} THEN
            LET close == IF Head(t) = "{" THEN "}" ELSE "]"
                u == LStrip(Tail(t))
            IN  IF u = <<>> THEN NoParse
                ELSE IF Head(u) = close
                  THEN [ok |-> TRUE, rest |-> Tail(u), val |-> <<Head(t), close>>]
                ELSE IF Head(t) = "{" /\ Head(u) # "k" THEN NoParse
                ELSE LET body == IF Head(t) = "{" THEN Tail(u) ELSE u
                         key == IF Head(t) = "{" THEN <<"k">> ELSE <<>>
                         v == ParseValue(body)
                         w == LStrip(v.rest)
                     IN  IF v.ok /\ w # <<>> /\ Head(w) = close
                           THEN [ok |-> TRUE, rest |-> Tail(w),
                                 val |-> <<Head(t)>> \o key \o v.val \o <<close>>]
                           ELSE NoParse
        ELSE NoParse

\* json.loads(json_text): the parsed payload, or JSONDecodeError (ok = FALSE).
JsonLoads(s) ==
    LET r == ParseValue(s)
    IN  IF r.ok /\ LStrip(r.rest) = <<>>
          THEN [ok |-> TRUE, val |-> r.val]
          ELSE [ok |-> FALSE, val |-> <<>>]

\* Mutant of LoadOrNone: the JSONDecodeError is not caught.
LoadOrRaise(run) ==
    LET r == JsonLoads(run)
    IN  IF r.ok THEN [kind |-> "value", val |-> r.val]
                ELSE [kind |-> "raise", val |-> <<>>]

\* `try: return json.loads(json_text)  except json.JSONDecodeError: return None`
LoadOrNone(run) ==
    LET r == JsonLoads(run)
    IN  IF r.ok THEN [kind |-> "value", val |-> r.val]
                ELSE [kind |-> "none", val |-> <<>>]

\* Mutant of ExtractJson: the list pattern is also tried when the brace run
\* does not parse.
ExtractJsonListFallback(text) ==
    LET m1 == ReSearch(text, "{", "}")
        m2 == ReSearch(text, "[", "]")
        r1 == LoadOrNone(m1.group)
    IN  IF m1.found /\ r1.kind = "value"
          THEN [kind |-> r1.kind, val |-> r1.val, listTried |-> FALSE]
          ELSE IF m2.found
                 THEN [kind |-> LoadOrNone(m2.group).kind,
                       val |-> LoadOrNone(m2.group).val, listTried |-> TRUE]
                 ELSE [kind |-> "none", val |-> <<>>, listTried |-> TRUE]

\* extract_json(text)
ExtractJson(text) ==
    LET m1 == ReSearch(text, "{", "}")
        tried == ~m1.found
        json_match == IF m1.found THEN m1 ELSE ReSearch(text, "[", "]")
    IN  IF json_match.found
          THEN LET r == LoadOrNone(json_match.group)
               IN  [kind |-> r.kind, val |-> r.val, listTried |-> tried]
          ELSE [kind |-> "none", val |-> <<>>, listTried |-> tried]

ExtractCall ==
    /\ ex_pc = "call"
    /\ ex_out' = ExtractJson(ex_text)
    /\ ex_pc' = "done"
    /\ UNCHANGED ex_text
    /\ UNCHANGED <<txVars, spVars, fmVars, mainVars>>

InitExtract ==
    /\ ex_text \in ExTexts
    /\ ex_pc = "call"
    /\ ex_out = [kind |-> "idle", val |-> <<>>, listTried |-> FALSE]
    /\ TranslatorIdle
    /\ InvokerIdle
    /\ FormatterIdle
    /\ MainIdle

\* Responses that consist of one well-formed object holding a nested object:
\* the tokens of such an object, with nothing, a blank, a newline or a blank
\* and a newline between any two of them.
SkeletonTokens == {"{", "}", "k", "1"}

Skeletons ==
    { s \in UNION { [1..n -> SkeletonTokens] : n \in 1..MaxSkeletonLen } :
        /\ s[1] = "{"
        /\ \E i \in 2..Len(s) : s[i] = "{"
        /\ JsonLoads(s).ok }

Fillers == { <<>>, <<" ">>, <<"\n">>, <<" ", "\n">> }

RECURSIVE Weave(_, _)
Weave(s, fills) ==
    IF Len(s) <= 1 THEN s
    ELSE <<Head(s)>> \o Head(fills) \o Weave(Tail(s), Tail(fills))

NestedTexts ==
    UNION { { Weave(s, fills) : fills \in [1..(Len(s) - 1) -> Fillers] }
            : s \in Skeletons }

InitExtractNested ==
    /\ ex_text \in NestedTexts
    /\ ex_pc = "call"
    /\ ex_out = [kind |-> "idle", val |-> <<>>, listTried |-> FALSE]
    /\ TranslatorIdle
    /\ InvokerIdle
    /\ FormatterIdle
    /\ MainIdle

NextExtract == ExtractCall

SpecExtract == InitExtract /\ [][NextExtract]_vars

SpecExtractNested == InitExtractNested /\ [][NextExtract]_vars

(***************************************************************************)
(* Claims about the Response Extractor (checked under SpecExtract).        *)
(***************************************************************************)
\* A run open ... close that ends at a newline (after blanks) or at the end.
IsRun(text, open, close, i, j) ==
    /\ 1 <= i /\ i < j /\ j <= Len(text)
    /\ text[i] = open
    /\ text[j] = close
    /\ \/ j = Len(text)
       \/ \E m \in (j + 1)..Len(text) :
             text[m] = "\n" /\ \A q \in (j + 1)..(m - 1) : text[q] \in {" ", "\n", "\t"}

RunExists(text, open, close) ==
    \E i \in 1..Len(text) : \E j \in 1..Len(text) : IsRun(text, open, close, i, j)

\* The first run: leftmost start, then nearest end.
FirstRun(text, open, close) ==
    LET i == CHOOSE a \in 1..Len(text) :
                /\ \E b \in 1..Len(text) : IsRun(text, open, close, a, b)
                /\ \A c \in 1..(a - 1) :
                      ~\E b \in 1..Len(text) : IsRun(text, open, close, c, b)
        j == CHOOSE b \in 1..Len(text) :
                /\ IsRun(text, open, close, i, b)
                /\ \A c \in 1..(b - 1) : ~IsRun(text, open, close, i, c)
    IN  SubSeq(text, i, j)

\* C6: for every text, extract_json returns the parsed payload or None and
\* never raises a parse error: None when no delimited run is found and when
\* the matched run does not parse.
C6_ExtractJsonNeverRaises ==
    ex_pc = "done" =>
        /\ ex_out.kind \in {"value", "none"}
        /\ (~RunExists(ex_text, "{", "}") /\ ~RunExists(ex_text, "[", "]"))
              => ex_out.kind = "none"
        /\ ex_out.kind = "value" =>
              \E i \in 1..Len(ex_text) : \E j \in 1..Len(ex_text) :
                  /\ IsRun(ex_text, "{", "}", i, j) \/ IsRun(ex_text, "[", "]", i, j)
                  /\ JsonLoads(SubSeq(ex_text, i, j)).ok
                  /\ ex_out.val = JsonLoads(SubSeq(ex_text, i, j)).val
        /\ ex_out.kind = "none" =>
              \/ ~RunExists(ex_text, "{", "}") /\ ~RunExists(ex_text, "[", "]")
              \/ \E i \in 1..Len(ex_text) : \E j \in 1..Len(ex_text) :
                  /\ IsRun(ex_text, "{", "}", i, j) \/ IsRun(ex_text, "[", "]", i, j)
                  /\ ~JsonLoads(SubSeq(ex_text, i, j)).ok

\* C6 witness: a brace run is matched, it does not parse, None is returned.
C6_Witness ==
    /\ ex_pc = "done"
    /\ ex_text = <<"{", "1", "}", "\n">>
    /\ ex_out.kind = "none"

\* C7: the list pattern is consulted only when the text has no brace run;
\* when a brace run is found the result is the parse of the first such run,
\* or None if it does not parse, and the list pattern is not a fallback.
C7_ListOnlyWithoutBraceRun ==
    ex_pc = "done" =>
        /\ ex_out.listTried <=> ~RunExists(ex_text, "{", "}")
        /\ RunExists(ex_text, "{", "}") =>
              LET p == JsonLoads(FirstRun(ex_text, "{", "}"))
              IN  IF p.ok THEN ex_out.kind = "value" /\ ex_out.val = p.val
                          ELSE ex_out.kind = "none"

\* C7 witness: the brace run does not parse although the text holds a list
\* run that would; None is returned and the list pattern was not tried.
C7_Witness ==
    /\ ex_pc = "done"
    /\ ex_text = <<"{", "[", "]", "\n", "}">>
    /\ RunExists(ex_text, "[", "]")
    /\ JsonLoads(FirstRun(ex_text, "[", "]")).ok
    /\ ex_out.kind = "none"
    /\ ~ex_out.listTried

\* Position j holds a closing brace that is the last non-blank character of
\* its line: only blanks separate it from the next newline.
ClosesItsLine(text, j) ==
    /\ text[j] = "}"
    /\ \E m \in (j + 1)..Len(text) :
          /\ text[m] = "\n"
          /\ \A q \in (j + 1)..(m - 1) : text[q] = " "

WithoutWhitespace(text) == SelectSeq(text, LAMBDA c : ~IsSpaceTok(c))

\* C20: extract_json does not track brace depth.  For a response that is one
\* well-formed object holding a nested object, it returns the whole object
\* when no inner closing brace is the last non-blank character of its line,
\* and otherwise the match is cut at such a brace and None is returned.
C20_NestedObjectCutAtLineEnd ==
    ex_pc = "done" =>
        IF \E j \in 1..(Len(ex_text) - 1) : ClosesItsLine(ex_text, j)
          THEN ex_out.kind = "none" /\ ~ex_out.listTried
          ELSE ex_out.kind = "value" /\ ex_out.val = WithoutWhitespace(ex_text)

\* C20 witness: the nested object closes at the end of the first line, and
\* nothing is extracted.
C20_Witness ==
    /\ ex_pc = "done"
    /\ ex_text = <<"{", "k", "{", "k", "1", "}", "\n", "}">>
    /\ ex_out.kind = "none"

(***************************************************************************)
(* Document Formatter: ClaudeConnector.formatar_para_sanity.               *)
(* A title is a sequence of characters.  Characters outside ASCII are      *)
(* named: "E_ACUTE" (U+00C9), "e_acute" (U+00E9), "COMB_ACUTE" (U+0301),   *)
(* "TM_SIGN" (U+2122); their case mapping, NFKD decomposition and classes  *)
(* are those of the Unicode character database.                            *)
(***************************************************************************)
SlugLimit == 50
ExcerptLimit == 299

TitleChars == {"a", "B", "E_ACUTE", " ", "_", "-", "!", "TM_SIGN"}

\* str.lower(), per character
LowerChar(c) ==
    CASE c = "B"       -> "b"
      [] c = "T"       -> "t"
      [] c = "M"       -> "m"
      [] c = "E_ACUTE" -> "e_acute"
      [] OTHER         -> c

\* unicodedata.normalize('NFKD', c)
NFKDChar(c) ==
    CASE c = "e_acute" -> <<"e", "COMB_ACUTE">>
      [] c = "E_ACUTE" -> <<"E", "COMB_ACUTE">>
      [] c = "TM_SIGN" -> <<"T", "M">>
      [] OTHER         -> <<c>>

\* unicodedata.combining(c) != 0
IsCombining(c) == c = "COMB_ACUTE"

\* regex \w and \s
IsWordChar(c) ==
    c \in {"a", "b", "e", "t", "m", "B", "E", "T", "M", "e_acute", "E_ACUTE", "_"}
IsSpaceChar(c) == c \in {" ", "\n", "\t"}

RECURSIVE MapLower(_)
MapLower(s) == IF s = <<>> THEN <<>> ELSE <<LowerChar(Head(s))>> \o MapLower(Tail(s))

RECURSIVE Normalize(_)
Normalize(s) == IF s = <<>> THEN <<>> ELSE NFKDChar(Head(s)) \o Normalize(Tail(s))

\* ''.join([c for c in slug if not unicodedata.combining(c)])
DropCombining(s) == SelectSeq(s, LAMBDA c : ~IsCombining(c))

\* re.sub(r'[^\w\s-]', '', slug)
DropSpecial(s) == SelectSeq(s, LAMBDA c : IsWordChar(c) \/ IsSpaceChar(c) \/ c = "-")

\* re.sub(r'[\s_]+', '-', slug)
RECURSIVE Hyphenate(_)
Hyphenate(s) ==
    IF s = <<>> THEN <<>>
    ELSE IF IsSpaceChar(Head(s)) \/ Head(s) = "_"
      THEN IF Len(s) > 1 /\ (IsSpaceChar(s[2]) \/ s[2] = "_")
             THEN Hyphenate(Tail(s))
             ELSE <<"-">> \o Hyphenate(Tail(s))
      ELSE <<Head(s)>> \o Hyphenate(Tail(s))

\* str.strip('-')
RECURSIVE StripHyphens(_)
StripHyphens(s) ==
    IF s # <<>> /\ Head(s) = "-" THEN StripHyphens(Tail(s))
    ELSE IF s # <<>> /\ s[Len(s)] = "-" THEN StripHyphens(SubSeq(s, 1, Len(s) - 1))
    ELSE s

\* s[:n]
Prefix(s, n) == SubSeq(s, 1, IF Len(s) < n THEN Len(s) ELSE n)

\* The slug of formatar_para_sanity.
Slug(titulo) ==
    Prefix(StripHyphens(Hyphenate(DropSpecial(DropCombining(Normalize(MapLower(titulo)))))),
           SlugLimit)

(***************************************************************************)
(* The body (conteudo) is the concatenation of pieces: paragraph texts and *)
(* the separators between them, written character by character.            *)
(***************************************************************************)
SepOpen == <<"<", "p", ">">>
SepClose == <<"<", "/", "p", ">">>
SepBlank == <<"\n", "\n">>
Separators == {SepOpen, SepClose, SepBlank}

ParPlain == <<"a">>
ParPadded == <<" ", "b", "\n">>
ParInline == <<"a", "<", "i", ">", "b", "<", "/", "i", ">">>
ParOnlyTags == <<"<", "i", ">", " ", "<", "/", "i", ">">>
ParBlank == <<" ">>
Paragraphs == {ParPlain, ParPadded, ParInline, ParOnlyTags, ParBlank}

\* Bodies: no two paragraphs without a separator between them.
Bodies ==
    { b \in UNION { [1..n -> Paragraphs \cup Separators] : n \in 0..MaxPieces } :
        \A i \in 1..(Len(b) - 1) : ~(b[i] \in Paragraphs /\ b[i + 1] \in Paragraphs) }

RECURSIVE Concat(_)
Concat(ps) == IF ps = <<>> THEN <<>> ELSE Head(ps) \o Concat(Tail(ps))

StartsWith(s, pre) == Len(s) >= Len(pre) /\ SubSeq(s, 1, Len(pre)) = pre

Drop(s, n) == SubSeq(s, n + 1, Len(s))

\* re.split(r'<p>|</p>|\n\n', conteudo): cur is the segment being read.
RECURSIVE ReSplit(_, _)
ReSplit(s, cur) ==
    IF s = <<>> THEN <<cur>>
    ELSE IF StartsWith(s, SepOpen) THEN <<cur>> \o ReSplit(Drop(s, 3), <<>>)
    ELSE IF StartsWith(s, SepClose) THEN <<cur>> \o ReSplit(Drop(s, 4), <<>>)
    ELSE IF StartsWith(s, SepBlank) THEN <<cur>> \o ReSplit(Drop(s, 2), <<>>)
    ELSE ReSplit(Tail(s), Append(cur, Head(s)))

RECURSIVE MapStrip(_)
MapStrip(ss) == IF ss = <<>> THEN <<>> ELSE <<PyStrip(Head(ss))>> \o MapStrip(Tail(ss))

\* paragrafos = [p.strip() for p in paragrafos if p.strip()]
SplitParagraphs(conteudo) ==
    SelectSeq(MapStrip(ReSplit(conteudo, <<>>)), LAMBDA p : p # <<>>)

\* The index of the first ">" of s, 0 if none.
RECURSIVE FirstGt(_, _)
FirstGt(s, i) ==
    IF i > Len(s) THEN 0 ELSE IF s[i] = ">" THEN i ELSE FirstGt(s, i + 1)

\* re.sub(r'<[^>]+>', '', paragrafo)
RECURSIVE StripTags(_)
StripTags(s) ==
    IF s = <<>> THEN <<>>
    ELSE IF Head(s) = "<" /\ FirstGt(s, 2) > 2
      THEN StripTags(Drop(s, FirstGt(s, 2)))
      ELSE <<Head(s)>> \o StripTags(Tail(s))

\* One block with one span.
Block(texto_limpo) ==
    [type |-> "block", style |-> "normal", markDefs |-> <<>>,
     children |-> << [type |-> "span", text |-> texto_limpo, marks |-> <<>>] >>]

\* Mutant of Blocks: the `if texto_limpo:` test is missing.
RECURSIVE BlocksKeepEmpty(_)
BlocksKeepEmpty(paragrafos) ==
    IF paragrafos = <<>> THEN <<>>
    ELSE <<Block(PyStrip(StripTags(Head(paragrafos))))>> \o BlocksKeepEmpty(Tail(paragrafos))

\* The loop that builds `blocks`.
RECURSIVE Blocks(_)
Blocks(paragrafos) ==
    IF paragrafos = <<>> THEN <<>>
    ELSE LET texto_limpo == PyStrip(StripTags(Head(paragrafos)))
         IN  (IF texto_limpo # <<>> THEN <<Block(texto_limpo)>> ELSE <<>>)
                 \o Blocks(Tail(paragrafos))

\* resumo[:299] with three dots appended when something was cut off.
ExcerptWithEllipsis(resumo) ==
    IF Len(resumo) > ExcerptLimit
        THEN Prefix(resumo, ExcerptLimit) \o <<".", ".", ".">>
        ELSE resumo

\* "excerpt": resumo[:299]
Excerpt(resumo) == Prefix(resumo, ExcerptLimit)

\* formatar_para_sanity(titulo, conteudo, resumo): the document (its random
\* _id and _key values and its publishedAt timestamp are left out).
FormatarParaSanity(titulo, conteudo, resumo) ==
    [type |-> "post",
     title |-> titulo,
     slug |-> [type |-> "slug", current |-> Slug(titulo)],
     excerpt |-> Excerpt(resumo),
     content |-> Blocks(SplitParagraphs(conteudo))]

FormatCall ==
    /\ fm_pc = "call"
    /\ fm_doc' = FormatarParaSanity(fm_titulo, Concat(fm_pieces), fm_resumo)
    /\ fm_pc' = "done"
    /\ UNCHANGED <<fm_titulo, fm_pieces, fm_resumo, fm_artigo>>
    /\ UNCHANGED <<txVars, spVars, exVars, mainVars>>

\* Titles: a run of "a" (empty, or long enough to reach the slug limit)
\* followed by a few characters.
Run(c, n) == [i \in 1..n |-> c]

Titles ==
    { Run("a", n) \o suf :
        n \in {0, SlugLimit - 2},
        suf \in UNION { [1..k -> TitleChars] : k \in 0..MaxSuffixLen } }

\* Summaries: a run of "x" (empty, or long enough to reach the excerpt
\* limit) followed by a few characters.
SummaryChars == {"y", "z"}

Summaries ==
    { Run("x", n) \o tail :
        n \in {0, ExcerptLimit - 2},
        tail \in UNION { [1..k -> SummaryChars] : k \in 0..MaxTailLen } }

FixedTitle == <<"B", "E_ACUTE", " ", "a">>
FixedBody == <<SepOpen, ParPlain, SepClose>>
FixedSummary == <<"x", "y">>

InitFormat ==
    /\ fm_artigo = <<>>
    /\ \/ fm_titulo \in Titles /\ fm_pieces = FixedBody /\ fm_resumo = FixedSummary
       \/ fm_titulo = FixedTitle /\ fm_pieces \in Bodies /\ fm_resumo = FixedSummary
       \/ fm_titulo = FixedTitle /\ fm_pieces = FixedBody /\ fm_resumo \in Summaries
    /\ fm_pc = "call"
    /\ fm_doc = [slug |-> <<>>, content |-> <<>>]
    /\ TranslatorIdle
    /\ InvokerIdle
    /\ ExtractorIdle
    /\ MainIdle

\* The translated articles processar_artigo loads: any of title, content,
\* summary and excerpt; the excerpt is short or longer than the limit.  An
\* article without content has a short summary.
ExcerptTexts == { Run("x", n) \o <<"e">> : n \in {0, ExcerptLimit} }

TranslatedArticles ==
    UNION { { a \in [K -> {FixedTitle, Concat(FixedBody)} \cup Summaries \cup ExcerptTexts] :
                /\ "title" \in K => a["title"] = FixedTitle
                /\ "content" \in K => a["content"] = Concat(FixedBody)
                /\ "summary" \in K => a["summary"] \in Summaries
                /\ "excerpt" \in K => a["excerpt"] \in ExcerptTexts
                /\ ("content" \notin K /\ "summary" \in K) =>
                      Len(a["summary"]) <= MaxTailLen }
            : K \in SUBSET {"title", "content", "summary", "excerpt"} }

\* processar_artigo, lines 60-72: the arguments it takes from the translated
\* article, and the document formatar_para_sanity builds from them.
ProcessarFormatar ==
    /\ fm_pc = "load"
    /\ LET titulo == Get(fm_artigo, "title", <<>>)
           conteudo == Get(fm_artigo, "content", Get(fm_artigo, "summary", <<>>))
           resumo == Get(fm_artigo, "summary", <<>>)
       IN  /\ fm_titulo' = titulo
           /\ fm_pieces' = <<conteudo>>
           /\ fm_resumo' = resumo
           /\ fm_doc' = FormatarParaSanity(titulo, conteudo, resumo)
    /\ fm_pc' = "done"
    /\ UNCHANGED fm_artigo
    /\ UNCHANGED <<txVars, spVars, exVars, mainVars>>

InitProcessar ==
    /\ fm_artigo \in TranslatedArticles
    /\ fm_titulo = <<>>
    /\ fm_pieces = <<>>
    /\ fm_resumo = <<>>
    /\ fm_pc = "load"
    /\ fm_doc = [slug |-> <<>>, content |-> <<>>]
    /\ TranslatorIdle
    /\ InvokerIdle
    /\ ExtractorIdle
    /\ MainIdle

NextProcessar == ProcessarFormatar

SpecProcessar == InitProcessar /\ [][NextProcessar]_vars

NextFormat == FormatCall

SpecFormat == InitFormat /\ [][NextFormat]_vars

\* The same calls, with titles of letters, blanks and punctuation only (no
\* compatibility character such as the trade mark sign).
InitFormatLatin == InitFormat /\ ~Has(fm_titulo, "TM_SIGN")

SpecFormatLatin == InitFormatLatin /\ [][NextFormat]_vars

(***************************************************************************)
(* Claims about the Document Formatter (checked under SpecFormat).         *)
(***************************************************************************)
IsUpperChar(c) == c \in {"B", "E", "T", "M", "E_ACUTE"}
IsAccentedChar(c) == c \in {"e_acute", "E_ACUTE", "COMB_ACUTE"}

\* C8 (as claimed): for every title, slug.current has at most 50 characters
\* and holds no uppercase letter, no whitespace, no underscore and no
\* accented character.
C8_SlugIsClean ==
    fm_pc = "done" =>
        LET s == fm_doc.slug.current
        IN  /\ Len(s) <= 50
            /\ \A i \in 1..Len(s) :
                  /\ ~IsUpperChar(s[i])
                  /\ ~IsSpaceChar(s[i])
                  /\ s[i] # "_"
                  /\ ~IsAccentedChar(s[i])

\* C9 (as claimed): slug generation is idempotent on its own output, also
\* when the slug was cut at the 50-character bound.
C9_SlugIdempotent ==
    fm_pc = "done" => Slug(fm_doc.slug.current) = fm_doc.slug.current

\* The text a paragraph of the body is expected to leave: the paragraph
\* trimmed, without its inline tags.
ExpectedText(p) ==
    CASE p = ParPlain    -> <<"a">>
      [] p = ParPadded   -> <<"b">>
      [] p = ParInline   -> <<"a", "b">>
      [] p = ParOnlyTags -> <<>>
      [] p = ParBlank    -> <<>>

RECURSIVE ExpectedTexts(_)
ExpectedTexts(pieces) ==
    IF pieces = <<>> THEN <<>>
    ELSE (IF Head(pieces) \in Paragraphs /\ ExpectedText(Head(pieces)) # <<>>
            THEN <<ExpectedText(Head(pieces))>>
            ELSE <<>>) \o ExpectedTexts(Tail(pieces))

\* C10: a body of N non-empty paragraphs separated by blank lines or <p> and
\* </p> tags gives exactly N blocks, in the paragraphs' order, each with one
\* span holding the paragraph without its inline tags; a segment that is
\* empty after trimming or after tag stripping gives no block.
C10_OneBlockPerParagraph ==
    fm_pc = "done" =>
        LET expected == ExpectedTexts(fm_pieces)
        IN  /\ Len(fm_doc.content) = Len(expected)
            /\ \A i \in 1..Len(fm_doc.content) :
                  /\ Len(fm_doc.content[i].children) = 1
                  /\ i <= Len(expected) => fm_doc.content[i].children[1].text = expected[i]

\* C10 witness: three paragraphs, the middle one empty once its tags are
\* stripped, give two blocks in order.
C10_Witness ==
    /\ fm_pc = "done"
    /\ fm_pieces = <<ParInline, SepBlank, ParOnlyTags, SepOpen, ParPadded>>
    /\ Len(fm_doc.content) = 2
    /\ fm_doc.content[1].children[1].text = <<"a", "b">>
    /\ fm_doc.content[2].children[1].text = <<"b">>

\* C11: for every summary s, the document's excerpt is the prefix of s of
\* length min(len(s), 299): s itself when it has at most 299 characters,
\* exactly its first 299 characters otherwise, with nothing appended.
C11_ExcerptIsPrefix ==
    fm_pc = "done" =>
        LET e == fm_doc.excerpt
            s == fm_resumo
        IN  /\ Len(e) = (IF Len(s) <= 299 THEN Len(s) ELSE 299)
            /\ \A i \in 1..Len(e) : e[i] = s[i]

\* C11 witness: a summary of 300 characters ending in "y", "z" lost its last
\* character.
C11_Witness ==
    /\ fm_pc = "done"
    /\ Len(fm_resumo) = 300
    /\ fm_resumo[299] = "y" /\ fm_resumo[300] = "z"
    /\ Len(fm_doc.excerpt) = 299
    /\ fm_doc.excerpt[299] = "y"

\* C22 (as claimed): for every article the orchestrator formats, the
\* document's excerpt is the first 299 characters of the translated
\* article's summary text, taken from its summary field or, when it has no
\* summary field, from its excerpt field; an article that carries its summary
\* only under excerpt does not get an empty excerpt.
C22_ExcerptFromSummaryOrExcerpt ==
    fm_pc = "done" =>
        LET a == fm_artigo
            s == IF "summary" \in DOMAIN a THEN a["summary"]
                                           ELSE Get(a, "excerpt", <<>>)
        IN  /\ fm_doc.excerpt = SubSeq(s, 1, IF Len(s) <= 299 THEN Len(s) ELSE 299)
            /\ ("summary" \notin DOMAIN a /\ "excerpt" \in DOMAIN a) =>
                  fm_doc.excerpt # <<>>

(***************************************************************************)
(* Orchestrator: processar_posts_existentes.main and processar_artigo.     *)
(* Files are numbered 1..MaxFiles in the order of their names.  The        *)
(* translation and the formatting of one file are steps whose outcome the  *)
(* environment chooses (they succeed, fail, or raise KeyError).            *)
(***************************************************************************)
Files == 1..MaxFiles

\* The input articles, as far as the orchestrator looks at them: whether
\* they hold a summary and an excerpt.
InputArticles ==
    { [k \in K |-> IF k = "summary" THEN <<"summary", "text">> ELSE <<"excerpt", "text">>]
        : K \in { {"summary"}, {"summary", "excerpt"}, {} } }

Directories == UNION { [S -> InputArticles] : S \in SUBSET Files }

ArgsSet ==
    { a \in [limit_given : BOOLEAN, limit : 0..MaxFiles,
             no_sanity : BOOLEAN, force : BOOLEAN] :
        ~a.limit_given => a.limit = 0 }

Max(S) == CHOOSE x \in S : \A y \in S : y <= x

\* The files of the directory in the reverse of their name order (an order
\* glob may give).
RECURSIVE Descending(_)
Descending(S) ==
    IF S = {} THEN <<>> ELSE <<Max(S)>> \o Descending(S \ {Max(S)})

ListarSemOrdenar(dir) == Descending(DOMAIN dir)

\* sorted(arquivos)
RECURSIVE Sorted(_)
Sorted(S) ==
    IF S = {} THEN <<>> ELSE <<Min(S)>> \o Sorted(S \ {Min(S)})

\* listar_posts_para_traduzir() (a missing directory is a directory without
\* files: both give the empty list).
ListarPostsParaTraduzir(dir) == Sorted(DOMAIN dir)

\* main: `if args.limit: arquivos = arquivos[:args.limit]`
ApplyLimit(arqs, a) ==
    IF a.limit_given /\ a.limit # 0 THEN Prefix(arqs, a.limit) ELSE arqs

\* processar_artigo handing its own forcar parameter on to traduzir_artigo.
ForcarRespeitado(forcar) == forcar

\* processar_artigo: traduzir_artigo(arquivo_path, forcar=True), whatever
\* its own forcar parameter holds.
ForcarPassado(forcar) == TRUE

\* traduzir_artigo(f, forcar), seen from its caller: whether it returned the
\* output path, invoked the translator and wrote the translated file.
TraduzirOutcomes == {"ok", "load_error", "write_error"}

TraduzirArtigo(f, forcar, traduzidos, out) ==
    IF f \in traduzidos /\ ~forcar
      THEN [path |-> TRUE, invoked |-> FALSE, written |-> FALSE]
      ELSE CASE out = "ok"          -> [path |-> TRUE,  invoked |-> TRUE,  written |-> TRUE]
             [] out = "load_error"  -> [path |-> FALSE, invoked |-> FALSE, written |-> FALSE]
             [] out = "write_error" -> [path |-> FALSE, invoked |-> TRUE,  written |-> FALSE]

\* main: success is recorded when traduzido holds a path, and an error is
\* recorded as well whenever formatado holds none.
RegistrarPorFormatado(res, f, traduzido, formatado) ==
    LET r1 == IF traduzido
                THEN [res EXCEPT !.sucesso = Append(@, [original |-> f, traduzido |-> f,
                                                       formatado |-> formatado])]
                ELSE res
    IN  IF formatado THEN r1 ELSE [r1 EXCEPT !.erro = Append(@, f)]

\* main: `if traduzido: resultados["sucesso"].append(...) else: resultados["erro"].append(arquivo)`
Registrar(res, f, traduzido, formatado) ==
    IF traduzido
      THEN [res EXCEPT !.sucesso = Append(@, [original |-> f, traduzido |-> f,
                                             formatado |-> formatado])]
      ELSE [res EXCEPT !.erro = Append(@, f)]

\* processar_artigo's KeyError handler repairs whenever a summary is there.
PodeAdaptarComSummary(artigo) == "summary" \in DOMAIN artigo

\* processar_artigo: `if "excerpt" not in artigo and "summary" in artigo`
PodeAdaptar(artigo) ==
    "excerpt" \notin DOMAIN artigo /\ "summary" \in DOMAIN artigo

\* The file the loop of main is at.
Arquivo == arquivos[idx]

Ev(op, f) == [op |-> op, file |-> f]

\* processar_artigo returns (traduzido, formatado) to main, which records
\* the file and moves on to the next one.
ProcessarReturn(traduzido, formatado, evs) ==
    /\ resultados' = Registrar(resultados, Arquivo, traduzido, formatado)
    /\ log' = log \o evs \o <<Ev("registrar", Arquivo)>>
    /\ idx' = idx + 1
    /\ depth' = 0
    /\ main_pc' = IF idx = Len(arquivos) THEN "report" ELSE "translate"

\* main: no file to process, `return` before any report.
MainNoFiles ==
    /\ main_pc = "start"
    /\ ListarPostsParaTraduzir(posts_para_traduzir) = <<>>
    /\ main_pc' = "exit"
    /\ exit_code' = 0
    /\ UNCHANGED <<posts_para_traduzir, posts_traduzidos, posts_formatados, args,
                   arquivos, idx, depth, resultados, relatorio, existed, log>>
    /\ UNCHANGED <<txVars, spVars, exVars, fmVars>>

\* main: list the files and apply --limit.
MainStart ==
    /\ main_pc = "start"
    /\ ListarPostsParaTraduzir(posts_para_traduzir) # <<>>
    /\ arquivos' = ApplyLimit(ListarPostsParaTraduzir(posts_para_traduzir), args)
    /\ idx' = 1
    /\ main_pc' = IF arquivos' = <<>> THEN "report" ELSE "translate"
    /\ UNCHANGED <<posts_para_traduzir, posts_traduzidos, posts_formatados, args,
                   depth, resultados, relatorio, exit_code, existed, log>>
    /\ UNCHANGED <<txVars, spVars, exVars, fmVars>>

\* processar_artigo, up to the return of traduzir_artigo.
Traduzir ==
    /\ main_pc = "translate"
    /\ \E out \in TraduzirOutcomes :
        LET f == Arquivo
            r == TraduzirArtigo(f, ForcarPassado(args.force), posts_traduzidos, out)
            evs == <<Ev(IF depth = 0 THEN "processar_artigo" ELSE "retry", f)>>
                     \o (IF r.invoked THEN <<Ev("translator", f)>> ELSE <<>>)
                     \o (IF r.written THEN <<Ev("write_traduzido", f)>> ELSE <<>>)
        IN  /\ posts_traduzidos' =
                  IF r.written THEN posts_traduzidos \cup {f} ELSE posts_traduzidos
            /\ IF r.path /\ ~args.no_sanity
                 THEN /\ main_pc' = "format"
                      /\ log' = log \o evs
                      /\ UNCHANGED <<idx, depth, resultados>>
                 ELSE ProcessarReturn(r.path, FALSE, evs)
    /\ UNCHANGED <<posts_para_traduzir, posts_formatados, args, arquivos,
                   relatorio, exit_code, existed>>
    /\ UNCHANGED <<txVars, spVars, exVars, fmVars>>

\* processar_artigo: the translated article is formatted and written.
FormatarOk ==
    /\ main_pc = "format"
    /\ posts_formatados' = posts_formatados \cup {Arquivo}
    /\ ProcessarReturn(TRUE, TRUE, <<Ev("write_formatado", Arquivo)>>)
    /\ UNCHANGED <<posts_para_traduzir, posts_traduzidos, args, arquivos,
                   relatorio, exit_code, existed>>
    /\ UNCHANGED <<txVars, spVars, exVars, fmVars>>

\* processar_artigo: `except Exception` (reading, formatting or writing failed).
FormatarErro ==
    /\ main_pc = "format"
    /\ ProcessarReturn(FALSE, FALSE, <<Ev("exception", Arquivo)>>)
    /\ UNCHANGED <<posts_para_traduzir, posts_traduzidos, posts_formatados, args,
                   arquivos, relatorio, exit_code, existed>>
    /\ UNCHANGED <<txVars, spVars, exVars, fmVars>>

\* processar_artigo: `except KeyError`, the input has a summary and no
\* excerpt: the excerpt is added, the input rewritten, the file retried.
KeyErrorAdapta ==
    /\ main_pc = "format"
    /\ PodeAdaptar(posts_para_traduzir[Arquivo])
    /\ posts_para_traduzir' =
          [posts_para_traduzir EXCEPT ![Arquivo] = Put(@, "excerpt", @["summary"])]
    /\ depth' = depth + 1
    /\ main_pc' = "translate"
    /\ log' = log \o <<Ev("keyerror", Arquivo), Ev("adaptar", Arquivo)>>
    /\ UNCHANGED <<posts_traduzidos, posts_formatados, args, arquivos, idx,
                   resultados, relatorio, exit_code, existed>>
    /\ UNCHANGED <<txVars, spVars, exVars, fmVars>>

\* processar_artigo: `except KeyError`, nothing to adapt.
KeyErrorNaoAdapta ==
    /\ main_pc = "format"
    /\ ~PodeAdaptar(posts_para_traduzir[Arquivo])
    /\ ProcessarReturn(FALSE, FALSE, <<Ev("keyerror", Arquivo)>>)
    /\ UNCHANGED <<posts_para_traduzir, posts_traduzidos, posts_formatados, args,
                   arquivos, relatorio, exit_code, existed>>
    /\ UNCHANGED <<txVars, spVars, exVars, fmVars>>

\* processar_artigo: `except KeyError`, and reading or rewriting the input
\* fails (`except Exception as e2`).
KeyErrorFalha ==
    /\ main_pc = "format"
    /\ ProcessarReturn(FALSE, FALSE, <<Ev("keyerror", Arquivo), Ev("exception", Arquivo)>>)
    /\ UNCHANGED <<posts_para_traduzir, posts_traduzidos, posts_formatados, args,
                   arquivos, relatorio, exit_code, existed>>
    /\ UNCHANGED <<txVars, spVars, exVars, fmVars>>

\* main: the report is written and main returns; nothing sets an exit code.
SalvarRelatorio ==
    /\ main_pc = "report"
    /\ relatorio' = <<[total_arquivos |-> Len(arquivos),
                       sucesso |-> Len(resultados.sucesso),
                       erro |-> Len(resultados.erro),
                       detalhes |-> resultados]>>
    /\ main_pc' = "exit"
    /\ exit_code' = 0
    /\ log' = Append(log, Ev("relatorio", 0))
    /\ UNCHANGED <<posts_para_traduzir, posts_traduzidos, posts_formatados, args,
                   arquivos, idx, depth, resultados, existed>>
    /\ UNCHANGED <<txVars, spVars, exVars, fmVars>>

\* A run of main: any directory, any command line; either no file or every
\* file already has a translated output.
InitMain ==
    /\ posts_para_traduzir \in Directories
    /\ posts_traduzidos \in {{}, DOMAIN posts_para_traduzir}
    /\ existed = posts_traduzidos
    /\ posts_formatados = {}
    /\ args \in ArgsSet
    /\ arquivos = <<>>
    /\ idx = 0
    /\ depth = 0
    /\ resultados = [sucesso |-> <<>>, erro |-> <<>>]
    /\ relatorio = <<>>
    /\ exit_code = 0
    /\ main_pc = "start"
    /\ log = <<>>
    /\ TranslatorIdle
    /\ InvokerIdle
    /\ ExtractorIdle
    /\ FormatterIdle

NextMain ==
    \/ MainNoFiles
    \/ MainStart
    \/ Traduzir
    \/ FormatarOk
    \/ FormatarErro
    \/ KeyErrorAdapta
    \/ KeyErrorNaoAdapta
    \/ KeyErrorFalha
    \/ SalvarRelatorio

SpecMain == InitMain /\ [][NextMain]_vars

(***************************************************************************)
(* Claims about the orchestrator (checked under SpecMain).                 *)
(***************************************************************************)
Ops(op) == SelectSeq(log, LAMBDA e : e.op = op)
FilesOf(evs) == [i \in 1..Len(evs) |-> evs[i].file]
IsPrefixOf(p, s) == Len(p) <= Len(s) /\ p = SubSeq(s, 1, Len(p))
Count(seq, f) == Cardinality({ i \in 1..Len(seq) : seq[i] = f })

\* The files main handed to processar_artigo, and the files it recorded.
Processados == FilesOf(Ops("processar_artigo"))
Registrados == FilesOf(Ops("registrar"))
Originais ==
    [i \in 1..Len(resultados.sucesso) |-> resultados.sucesso[i].original]

\* The file whose turn it is at position k of the log.
TurnAt(k) ==
    LET before == { j \in 1..k : log[j].op = "processar_artigo" }
    IN  IF before = {} THEN 0 ELSE log[Max(before)].file

\* C14: main processes the selected files one at a time, in ascending order
\* of their names, each exactly once; a failure on one file prevents neither
\* the processing of the files after it nor the writing of the report.
C14_SequentialSortedOnce ==
    /\ \A i, j \in 1..Len(arquivos) : i < j => arquivos[i] < arquivos[j]
    /\ IsPrefixOf(Processados, arquivos)
    /\ IsPrefixOf(Registrados, arquivos)
    /\ Len(Processados) - Len(Registrados) \in {0, 1}
    /\ \A k \in 1..Len(log) :
          log[k].op # "relatorio" => log[k].file = TurnAt(k)
    /\ (main_pc = "report" \/ relatorio # <<>>) =>
          Processados = arquivos /\ Registrados = arquivos
    /\ main_pc \in {"translate", "format", "report"} => ENABLED NextMain

\* C14 witness: the report was written after the first file failed and the
\* second one succeeded.
C14_Witness ==
    /\ relatorio # <<>>
    /\ arquivos = <<1, 2>>
    /\ resultados.erro = <<1>>
    /\ Originais = <<2>>

\* C15: each file handled so far is in exactly one of the success list and
\* the error list, and in the written report the success count plus the
\* error count equals the number of files selected.
C15_ExactlyOneList ==
    /\ \A f \in Files :
          Count(Originais, f) + Count(resultados.erro, f) = Count(Registrados, f)
    /\ \A f \in Files : Count(Registrados, f) <= 1
    /\ relatorio # <<>> =>
          /\ relatorio[1].sucesso = Len(resultados.sucesso)
          /\ relatorio[1].erro = Len(resultados.erro)
          /\ relatorio[1].total_arquivos = Len(arquivos)
          /\ relatorio[1].sucesso + relatorio[1].erro = relatorio[1].total_arquivos

\* C15 witness: a report of a translation-only run with one success and one
\* error.
C15_Witness ==
    /\ relatorio # <<>>
    /\ args.no_sanity
    /\ relatorio[1].sucesso = 1
    /\ relatorio[1].erro = 1
    /\ relatorio[1].total_arquivos = 2

\* C16 (as claimed): without --force, a file whose translated output already
\* exists is skipped: the translator is not invoked for it and its output is
\* not rewritten.
C16_ExistingSkippedWithoutForce ==
    \A k \in 1..Len(log) :
        (log[k].file \in existed /\ ~args.force) =>
            log[k].op \notin {"translator", "write_traduzido"}

\* C17 (as claimed): with --limit N, N >= 0, main processes at most N files,
\* and they are the first min(N, number of files) files in sorted order.
C17_LimitSelectsFirstN ==
    args.limit_given =>
        LET all == Sorted(DOMAIN posts_para_traduzir)
        IN  /\ Len(Processados) <= args.limit
            /\ IsPrefixOf(Processados, all)
            /\ main_pc = "exit" => Processados = Prefix(all, args.limit)

\* C18 (as claimed): the exit code is non-zero when the error list is not
\* empty, and zero when no file failed.
C18_ExitCodeReflectsFailures ==
    main_pc = "exit" => (resultados.erro # <<>> <=> exit_code # 0)

\* What the step added to the log.
NewEvents == SubSeq(log', Len(log) + 1, Len(log'))

\* C19: on a missing-field error (KeyError) for an article with a summary
\* and no excerpt, processar_artigo copies the summary into excerpt, rewrites
\* the input and retries the file; a file is repaired at most once; when the
\* repair does not apply (or cannot be written) the file is recorded as
\* failed and the run goes on.
C19_RepairedAtMostOnce ==
    /\ \A f \in DOMAIN posts_para_traduzir :
          LET a == posts_para_traduzir[f]
              n == Count(FilesOf(Ops("adaptar")), f)
          IN  /\ n <= 1
              /\ n = 1 => /\ "summary" \in DOMAIN a
                          /\ "excerpt" \in DOMAIN a
                          /\ a["excerpt"] = a["summary"]
    /\ \A k \in 1..Len(log) :
          (log[k].op = "adaptar" /\ k < Len(log)) =>
              log[k + 1] = Ev("retry", log[k].file)

C19_KeyErrorStep ==
    (NewEvents # <<>> /\ NewEvents[1].op = "keyerror") =>
        LET f == Arquivo
            a == posts_para_traduzir[f]
            failed == Len(NewEvents) >= 2 /\ NewEvents[2].op = "exception"
        IN  IF "excerpt" \notin DOMAIN a /\ "summary" \in DOMAIN a /\ ~failed
              THEN /\ posts_para_traduzir' =
                        [posts_para_traduzir EXCEPT ![f] = Put(a, "excerpt", a["summary"])]
                   /\ main_pc' = "translate"
                   /\ idx' = idx
                   /\ resultados' = resultados
              ELSE /\ posts_para_traduzir' = posts_para_traduzir
                   /\ resultados'.erro = Append(resultados.erro, f)
                   /\ resultados'.sucesso = resultados.sucesso
                   /\ main_pc' \in {"translate", "report"}

C19_RepairOnceThenRetry == []C19_RepairedAtMostOnce /\ [][C19_KeyErrorStep]_vars

\* C19 witness: a file was repaired, retried, and recorded as a success.
C19_Witness ==
    \E k \in 1..Len(log) :
        /\ log[k].op = "adaptar"
        /\ k + 1 <= Len(log)
        /\ log[k + 1].op = "retry"
        /\ k - 1 >= 1
        /\ log[k - 1] = Ev("keyerror", log[k].file)
        /\ \E i \in 1..Len(Originais) : Originais[i] = log[k].file

\* Positions of the log where the given operation was done on file f.
Positions(op, f) == { k \in 1..Len(log) : log[k] = Ev(op, f) }

\* Both outputs of f were written, the translated file before the formatted one.
BothWritten(f) ==
    \E k1 \in Positions("write_traduzido", f) :
        \E k2 \in Positions("write_formatado", f) : k1 < k2

====
